---- MODULE Spec2Model ----
(***************************************************************************)
(* State-machine model of the Astron front-end behaviour layer             *)
(* (src/main.js): LazyLoader, ScrollAnimations, Navigation, StatsCounter,  *)
(* BackToTop, SmoothScroll, debounce and ParallaxEffect, together with the *)
(* parts of the browser they talk to (scroll position and scroll events,   *)
(* clicks with bubbling, IntersectionObserver entry queues, animation      *)
(* frames, timers, image preloads, elements a document may lack).          *)
(*                                                                         *)
(* Each component has its own specification (SpecNav, SpecLazy, ...): the  *)
(* components share no state, and a specification starts the others on a   *)
(* document that holds none of their elements.                             *)
(***************************************************************************)
EXTENDS Integers, Sequences, FiniteSets, TLC

VARIABLES
    \* ---- window / document
    hasIO,              \* 'IntersectionObserver' in window
    dom,                \* which of the elements the components look up exist
    scrollListeners,    \* the listeners added to window for 'scroll', in order
    innerHeight,        \* window.innerHeight
    timers,             \* pending window.setTimeout timers, each [id, left, args]:
                        \* its handle, the ms left of its delay, and the arguments
                        \* its callback will pass on
    threw,              \* a listener has ended in an uncaught exception (history)
    scrollY,            \* window.scrollY
    innerWidth,         \* window.innerWidth
    scrollEventPending, \* the position changed and the scroll event is not yet dispatched
    smoothTarget,       \* destination of the running smooth scroll, or NoValue
    \* ---- Navigation
    lastScrollY,        \* Navigation.lastScrollY
    navbarScrolled,     \* navbar.classList has 'scrolled'
    toggleActive,       \* menuToggle.classList has 'active'
    menuActive,         \* navMenu.classList has 'active'
    bodyOverflow,       \* document.body.style.overflow
    \* ---- BackToTop
    backToTopVisible,   \* button.classList has 'visible'
    \* ---- ParallaxEffect and its debounced scroll listener
    heroTransform,      \* heroImg.style.transform
    dbTimeout,          \* the timeout variable of the debounce closure
    dbInvoked,          \* the arguments of the calls of the debounced function made
                        \* by the most recent trigger or timer (history)
    dbSince,            \* ms since the most recent trigger, up to the wait (history)
    dbBurst,            \* triggers of the running burst, up to MaxBurst; once the
                        \* function ran for the burst, minus that number (history)
    \* ---- what the most recent click event did
    clickResult,        \* [prevented, called, top]: e.preventDefault() was called,
                        \* window.scrollTo() was called, and with which top
    \* ---- LazyLoader
    lazyImages,         \* LazyLoader.images
    lazyIO,             \* LazyLoader.observer
    imgDataSrc,         \* per image: it has a data-src attribute
    imgSrcAssigned,     \* per image: img.src was set to the real source
    imgLoaded,          \* per image: classList has 'loaded'
    imgPreloads,        \* per image: preloads (tempImg) started and not yet finished
    imgPreloadStarts,   \* per image: preloads started so far (history)
    preloadLog,         \* the images whose preload was started, in the order of the
                        \* starts (history)
    imgErrors,          \* per image: console.error calls of its preloads (history)
    \* ---- ScrollAnimations
    revealElements,     \* ScrollAnimations.elements
    revealIO,           \* ScrollAnimations.observer
    elVisible,          \* per element: classList has 'visible'
    \* ---- StatsCounter
    statNumbers,        \* StatsCounter.statNumbers
    statsIO,            \* StatsCounter.observer
    animated,           \* StatsCounter.animated
    dataTarget,         \* per stat element: its data-target attribute (characters)
    textContent,        \* per stat element: its textContent (characters)
    chains,             \* per stat element: the animateCounter calls made for it, each
                        \* [target, steps, live]: the parsed target, the updateCounter
                        \* calls so far, and whether an animation frame is requested
    reentered,          \* per stat element: an intersecting entry came after it was
                        \* animated (history)
    \* ---- history
    lastClick,          \* [target, width, wasOpen]: what the most recent click hit, the
                        \* width it read, and whether the menu was open before it
    lastEventY          \* window.scrollY as read by the most recent scroll event, or NoValue

\* what the page is given and never changes
envVars == <<hasIO, dom, scrollListeners>>

parallaxVars == <<innerHeight, timers, heroTransform, dbTimeout, dbInvoked, dbSince,
                  dbBurst>>

pageVars == <<scrollY, innerWidth, scrollEventPending, smoothTarget>>
navVars == <<lastScrollY, navbarScrolled, toggleActive, menuActive, bodyOverflow>>
uiVars == <<pageVars, navVars, backToTopVisible, clickResult, lastClick, lastEventY,
            threw, parallaxVars>>

lazyVars == <<lazyImages, lazyIO, imgDataSrc, imgSrcAssigned, imgLoaded, imgPreloads,
              imgPreloadStarts, preloadLog, imgErrors>>
revealVars == <<revealElements, revealIO, elVisible>>

statsVars == <<statNumbers, statsIO, animated, dataTarget, textContent, chains, reentered>>

vars == <<envVars, uiVars, lazyVars, revealVars, statsVars>>

\* what the actions of one component leave alone
notUi == <<envVars, lazyVars, revealVars, statsVars>>
notLazy == <<envVars, uiVars, revealVars, statsVars>>
notReveal == <<envVars, uiVars, lazyVars, statsVars>>
notStats == <<envVars, uiVars, lazyVars, revealVars>>

\* "no value": null element, no scroll event so far, no smooth scroll running
NoValue == 0 - 1

(***************************************************************************)
(* Program constants                                                       *)
(***************************************************************************)
NavbarScrollThreshold == 100
BackToTopThreshold == 500
MobileBreakpoint == 768

(***************************************************************************)
(* The document the model runs on                                          *)
(***************************************************************************)
\* largest scroll offset of the page
MaxScrollY == 600

Clamp(top) == IF top < 0 THEN 0 ELSE IF top > MaxScrollY THEN MaxScrollY ELSE top

\* ids of the document (as character sequences) and their elements' offsetTop
OffsetTop == (<<"t">> :> 170) @@ (<<"a", "b">> :> 571)
ElementIds == DOMAIN OffsetTop

\* document.getElementById(id).offsetTop, or NoValue for null
GetElementById(id) == IF id \in ElementIds THEN OffsetTop[id] ELSE NoValue

\* navbar.offsetHeight, read at click time
NavbarHeights == {0, 70}

\* href attributes of the in-page anchors (all match a[href^="#"])
Hrefs == {<<"#">>, <<"#", "t">>, <<"#", "a", "b">>, <<"#", "a">>}

Widths == {500, MobileBreakpoint, MobileBreakpoint + 1}

\* offsets a user scroll can stop at
UserOffsets ==
    {0, NavbarScrollThreshold, NavbarScrollThreshold + 1,
     BackToTopThreshold, BackToTopThreshold + 1, MaxScrollY}

\* every offset the page can be at
ScrollPositions ==
    UserOffsets \cup {Clamp(OffsetTop[i] - h) : i \in ElementIds, h \in NavbarHeights}

\* offsets the page can be at when the components are constructed
InitialOffsets == {0, 300}

\* what a click can hit: el is the element, href its href attribute (<<>>: none)
ClickTargets ==
    {[el |-> e, href |-> <<>>] : e \in {"menuToggle", "navMenu", "backToTop", "page"}}
    \cup {[el |-> e, href |-> h] : e \in {"navLink", "anchor"}, h \in Hrefs}

NoTarget == [el |-> "none", href |-> <<>>]

\* navMenu.contains(target) / menuToggle.contains(target)
InNavMenu(t) == t.el \in {"navMenu", "navLink"}
InMenuToggle(t) == t.el = "menuToggle"

(***************************************************************************)
(* Navigation                                                              *)
(***************************************************************************)
\* the menu's three mirrors, as one record
MenuState == [toggle |-> toggleActive, menu |-> menuActive, overflow |-> bodyOverflow]

ToggleMenu(m) ==
    LET t == ~m.toggle
        n == ~m.menu
    IN  [toggle |-> t, menu |-> n, overflow |-> IF n THEN "hidden" ELSE ""]

CloseMenu_keepsLock(m) == [toggle |-> FALSE, menu |-> FALSE, overflow |-> m.overflow]

CloseMenu(m) == [toggle |-> FALSE, menu |-> FALSE, overflow |-> ""]

LinkClick_below(m, w) == IF w < MobileBreakpoint THEN CloseMenu(m) ELSE m

\* the click listener of each menu link
LinkClick(m, w) == IF w <= MobileBreakpoint THEN CloseMenu(m) ELSE m

DocumentClick_anyTarget(m, t, w) ==
    IF w <= MobileBreakpoint /\ m.menu THEN CloseMenu(m) ELSE m

\* the click listener of document ("close menu when clicking outside")
DocumentClick(m, t, w) ==
    IF /\ w <= MobileBreakpoint
       /\ ~InNavMenu(t)
       /\ ~InMenuToggle(t)
       /\ m.menu
    THEN CloseMenu(m)
    ELSE m

\* the listeners a click runs before it reaches document
TargetClick(m, t, w) ==
    CASE t.el = "menuToggle" -> ToggleMenu(m)
      [] t.el = "navLink"    -> LinkClick(m, w)
      [] OTHER               -> m

\* the condition of Navigation.handleScroll
NavScrolled(y) == y > NavbarScrollThreshold

(***************************************************************************)
(* The same listeners on a document that lacks some of the elements.       *)
(* d says which elements exist; a lookup of a missing one gave null, and   *)
(* reading a property of null raises a TypeError that ends the listener.   *)
(* The result is [m, threw]: the menu state the listener left behind and   *)
(* whether it ended that way.                                              *)
(***************************************************************************)
Elements == {"navbar", "menuToggle", "navMenu", "backToTop", "heroImg"}

AllPresent == [e \in Elements |-> TRUE]

Without(e) == [AllPresent EXCEPT ![e] = FALSE]

MenuPresent(d) == d["menuToggle"] /\ d["navMenu"]

Returned(m) == [m |-> m, threw |-> FALSE]
Raised(m) == [m |-> m, threw |-> TRUE]

\* Navigation.toggleMenu; its listener exists only on an existing menuToggle
ToggleMenuOn(d, m) ==
    IF MenuPresent(d) THEN Returned(ToggleMenu(m))
    ELSE Raised([m EXCEPT !.toggle = ~@])

\* Navigation.closeMenu
CloseMenuOn(d, m) ==
    IF MenuPresent(d) THEN Returned(CloseMenu(m))
    ELSE IF ~d["menuToggle"] THEN Raised(m)
    ELSE Raised([m EXCEPT !.toggle = FALSE])

\* the click listener of each menu link
LinkClickOn(d, m, w) ==
    IF MenuPresent(d) THEN Returned(LinkClick(m, w))
    ELSE IF w <= MobileBreakpoint THEN CloseMenuOn(d, m)
    ELSE Returned(m)

\* the click listener of document: the condition is evaluated left to right
DocumentClickOn(d, m, t, w) ==
    IF MenuPresent(d) THEN Returned(DocumentClick(m, t, w))
    ELSE IF w > MobileBreakpoint THEN Returned(m)
    ELSE IF ~d["navMenu"] THEN Raised(m)
    ELSE IF InNavMenu(t) THEN Returned(m)
    ELSE Raised(m)

\* the listeners a click runs before it reaches document
TargetClickOn(d, m, t, w) ==
    IF MenuPresent(d) THEN Returned(TargetClick(m, t, w))
    ELSE CASE t.el = "menuToggle" -> ToggleMenuOn(d, m)
           [] t.el = "navLink"    -> LinkClickOn(d, m, w)
           [] OTHER               -> Returned(m)

NavHandleScroll_closesMenu(d, sc, y) ==
    [sc EXCEPT !.scrolled = NavScrolled(y), !.lastScrollY = y, !.menu = CloseMenu(@)]

\* Navigation.handleScroll on the scroll state [scrolled, lastScrollY, ...]
NavHandleScroll(d, sc, y) ==
    IF d["navbar"]
    THEN [sc EXCEPT !.scrolled = NavScrolled(y), !.lastScrollY = y]
    ELSE [sc EXCEPT !.threw = TRUE]

(***************************************************************************)
(* BackToTop                                                               *)
(***************************************************************************)
BackToTopShown_atLeast(y) == y >= BackToTopThreshold

\* the condition of BackToTop.handleScroll
BackToTopShown(y) == y > BackToTopThreshold

(***************************************************************************)
(* SmoothScroll                                                            *)
(***************************************************************************)
NoCall == [prevented |-> FALSE, called |-> FALSE, top |-> 0]

SmoothHandleClick_scrollsAnyway(href, navbarHeight) ==
    IF href = <<"#">>
    THEN NoCall
    ELSE [prevented |-> TRUE, called |-> TRUE,
          top |-> (IF GetElementById(Tail(href)) # NoValue
                   THEN GetElementById(Tail(href)) ELSE 0) - navbarHeight]

\* SmoothScroll.handleClick: whether it called e.preventDefault(), whether it
\* called window.scrollTo, and the top it passed
SmoothHandleClick(href, navbarHeight) ==
    IF href = <<"#">>
    THEN NoCall
    ELSE LET targetId == Tail(href)
             targetElement == GetElementById(targetId)
         IN  IF targetElement # NoValue
             THEN [prevented |-> TRUE, called |-> TRUE,
                   top |-> targetElement - navbarHeight]
             ELSE [prevented |-> TRUE, called |-> FALSE, top |-> 0]

\* BackToTop.scrollToTop
ScrollToTop == [prevented |-> FALSE, called |-> TRUE, top |-> 0]

\* every listener of a click on t that can call preventDefault or scrollTo
ClickScroll(t, navbarHeight) ==
    CASE t.el \in {"navLink", "anchor"} -> SmoothHandleClick(t.href, navbarHeight)
      [] t.el = "backToTop"             -> ScrollToTop
      [] OTHER                          -> NoCall

\* the same as [r, threw]; without a navbar, handleClick ends in a TypeError
\* at document.getElementById('navbar').offsetHeight once it found the target
ClickScrollOn(d, t, navbarHeight) ==
    IF d["navbar"] \/ t.el \notin {"navLink", "anchor"} \/ t.href = <<"#">>
    THEN [r |-> ClickScroll(t, navbarHeight), threw |-> FALSE]
    ELSE [r |-> [prevented |-> TRUE, called |-> FALSE, top |-> 0],
          threw |-> GetElementById(Tail(t.href)) # NoValue]

(***************************************************************************)
(* IntersectionObserver, as the components use it. An observer is a record *)
(* [targets, last, queue, created]: the observed elements, what the last   *)
(* computation found for each, the entries queued for the callback, and    *)
(* whether new IntersectionObserver() ran at all.                          *)
(* An element is "out" (not intersecting the root), "edge" (intersecting,  *)
(* ratio below the threshold) or "in" (ratio at or above the threshold).   *)
(* An entry is queued when that changes, and the first computation after   *)
(* observe() always queues one. The callback gets all queued entries in    *)
(* one batch, in order; several computations can happen before it runs.    *)
(***************************************************************************)
\* longest batch of entries the model queues
MaxQueue == 3

Visibility == {"out", "edge", "in"}

NewObserver(elements) ==
    [targets |-> elements, last |-> [e \in elements |-> "none"], queue |-> <<>>,
     created |-> TRUE]

\* this.observer = null: no observer was created
NoObserver == [NewObserver({}) EXCEPT !.created = FALSE]

\* the observer of a component whose document holds none of its elements
IdleObserver == IF hasIO THEN NewObserver({}) ELSE NoObserver

IsIntersecting(v) == v # "out"

CanCompute(io, e, v) ==
    /\ e \in io.targets
    /\ v # io.last[e]
    /\ Len(io.queue) < MaxQueue

Compute(io, e, v) ==
    [io EXCEPT !.last[e] = v,
               !.queue = Append(@, [target |-> e, isIntersecting |-> IsIntersecting(v)])]

Unobserve(io, e) == [io EXCEPT !.targets = @ \ {e}]

TakeRecords(io) == [io EXCEPT !.queue = <<>>]

(***************************************************************************)
(* LazyLoader                                                              *)
(***************************************************************************)
\* number of .lazy-img elements of the document
NumLazyImages == 2

LazyImgs == 1..NumLazyImages

\* what loadImage and the observer callback read and write
LazyState ==
    [dataSrc |-> imgDataSrc, preloads |-> imgPreloads, starts |-> imgPreloadStarts,
     log |-> preloadLog, io |-> lazyIO]

\* LazyLoader.loadImage, up to tempImg.src = src
LoadImage(st, img) ==
    IF ~st.dataSrc[img]
    THEN st
    ELSE [st EXCEPT !.preloads[img] = @ + 1, !.starts[img] = @ + 1,
                    !.log = Append(@, img)]

\* the body of the forEach of LazyLoader.handleIntersection
LazyEntry(st, entry) ==
    IF entry.isIntersecting
    THEN LET loaded == LoadImage(st, entry.target)
         IN  [loaded EXCEPT !.io = Unobserve(@, entry.target)]
    ELSE st

RECURSIVE LazyHandleIntersection(_, _)
\* LazyLoader.handleIntersection
LazyHandleIntersection(st, entries) ==
    IF entries = <<>>
    THEN st
    ELSE LazyHandleIntersection(LazyEntry(st, Head(entries)), Tail(entries))

\* document.querySelectorAll('.lazy-img'): the images in document order
DocumentOrder == [i \in 1..NumLazyImages |-> i]

Backwards(seq) == [i \in 1..Len(seq) |-> seq[Len(seq) + 1 - i]]

RECURSIVE LoadEach(_, _)
\* images.forEach(img => this.loadImage(img))
LoadEach(st, imgs) ==
    IF imgs = <<>>
    THEN st
    ELSE LoadEach(LoadImage(st, Head(imgs)), Tail(imgs))

LoadAllImages_backwards(st) == LoadEach(st, Backwards(DocumentOrder))

\* LazyLoader.loadAllImages
LoadAllImages(st) == LoadEach(st, DocumentOrder)

\* the fields of a LazyLoader before init(): this.observer = null
LazyConstructed(dataSrc) ==
    [dataSrc |-> dataSrc, preloads |-> [i \in LazyImgs |-> 0],
     starts |-> [i \in LazyImgs |-> 0], log |-> <<>>, io |-> NoObserver]

\* LazyLoader.init: observe every image, or load them all when the browser
\* has no IntersectionObserver
LazyInitState(dataSrc) ==
    IF hasIO
    THEN [LazyConstructed(dataSrc) EXCEPT !.io = NewObserver(LazyImgs)]
    ELSE LoadAllImages(LazyConstructed(dataSrc))

\* LazyLoader.constructor and init
LazyInit ==
    /\ lazyImages = LazyImgs
    /\ \E dataSrc \in [LazyImgs -> BOOLEAN] :
          LET st == LazyInitState(dataSrc)
          IN  /\ imgDataSrc = st.dataSrc
              /\ lazyIO = st.io
              /\ imgPreloads = st.preloads
              /\ imgPreloadStarts = st.starts
              /\ preloadLog = st.log
    /\ imgSrcAssigned = [i \in LazyImgs |-> FALSE]
    /\ imgLoaded = [i \in LazyImgs |-> FALSE]
    /\ imgErrors = [i \in LazyImgs |-> 0]

\* the same on a document without .lazy-img elements
LazyQuiet ==
    /\ lazyImages = {}
    /\ imgDataSrc = [i \in {} |-> FALSE]
    /\ lazyIO = IdleObserver
    /\ imgSrcAssigned = [i \in {} |-> FALSE]
    /\ imgLoaded = [i \in {} |-> FALSE]
    /\ imgPreloads = [i \in {} |-> 0]
    /\ imgPreloadStarts = [i \in {} |-> 0]
    /\ preloadLog = <<>>
    /\ imgErrors = [i \in {} |-> 0]

\* the browser computes the intersection of an observed image
LazyCompute(img, v) ==
    /\ CanCompute(lazyIO, img, v)
    /\ lazyIO' = Compute(lazyIO, img, v)
    /\ UNCHANGED <<lazyImages, imgDataSrc, imgSrcAssigned, imgLoaded, imgPreloads,
                   imgPreloadStarts, preloadLog, imgErrors>>
    /\ UNCHANGED notLazy

\* the browser runs the observer's callback on the queued entries
LazyNotify ==
    /\ lazyIO.queue # <<>>
    /\ LET st == LazyHandleIntersection([LazyState EXCEPT !.io = TakeRecords(@)],
                                        lazyIO.queue)
       IN  /\ lazyIO' = st.io
           /\ imgPreloads' = st.preloads
           /\ imgPreloadStarts' = st.starts
           /\ imgDataSrc' = st.dataSrc
           /\ preloadLog' = st.log
    /\ UNCHANGED <<lazyImages, imgSrcAssigned, imgLoaded, imgErrors>>
    /\ UNCHANGED notLazy

\* tempImg.onload
PreloadLoaded(img) ==
    /\ imgPreloads[img] > 0
    /\ imgPreloads' = [imgPreloads EXCEPT ![img] = @ - 1]
    /\ imgSrcAssigned' = [imgSrcAssigned EXCEPT ![img] = TRUE]
    /\ imgLoaded' = [imgLoaded EXCEPT ![img] = TRUE]
    /\ imgDataSrc' = [imgDataSrc EXCEPT ![img] = FALSE]
    /\ UNCHANGED <<lazyImages, lazyIO, imgPreloadStarts, preloadLog, imgErrors>>
    /\ UNCHANGED notLazy

PreloadFailed_silent(img) ==
    /\ imgPreloads[img] > 0
    /\ imgPreloads' = [imgPreloads EXCEPT ![img] = @ - 1]
    /\ imgLoaded' = [imgLoaded EXCEPT ![img] = TRUE]
    /\ UNCHANGED <<lazyImages, lazyIO, imgDataSrc, imgSrcAssigned, imgPreloadStarts,
                   preloadLog, imgErrors>>
    /\ UNCHANGED notLazy

\* tempImg.onerror
PreloadFailed(img) ==
    /\ imgPreloads[img] > 0
    /\ imgPreloads' = [imgPreloads EXCEPT ![img] = @ - 1]
    /\ imgErrors' = [imgErrors EXCEPT ![img] = @ + 1]
    /\ imgLoaded' = [imgLoaded EXCEPT ![img] = TRUE]
    /\ UNCHANGED <<lazyImages, lazyIO, imgDataSrc, imgSrcAssigned, imgPreloadStarts,
                   preloadLog>>
    /\ UNCHANGED notLazy

LazyNext ==
    \/ \E img \in lazyImages, v \in Visibility : LazyCompute(img, v)
    \/ LazyNotify
    \/ \E img \in lazyImages : PreloadLoaded(img)
    \/ \E img \in lazyImages : PreloadFailed(img)

(***************************************************************************)
(* ScrollAnimations                                                        *)
(***************************************************************************)
\* number of .fade-in-scroll elements of the document
NumRevealElements == 2

RevealEls == 1..NumRevealElements

RevealEntry_tracksVisibility(visible, entry) ==
    [visible EXCEPT ![entry.target] = entry.isIntersecting]

\* the body of the forEach of ScrollAnimations.handleIntersection
RevealEntry(visible, entry) ==
    IF entry.isIntersecting
    THEN [visible EXCEPT ![entry.target] = TRUE]
    ELSE visible

RECURSIVE RevealHandleIntersection(_, _)
\* ScrollAnimations.handleIntersection
RevealHandleIntersection(visible, entries) ==
    IF entries = <<>>
    THEN visible
    ELSE RevealHandleIntersection(RevealEntry(visible, Head(entries)), Tail(entries))

\* ScrollAnimations.constructor and init: observe every element, or show them
\* all when the browser has no IntersectionObserver
RevealInit ==
    /\ revealElements = RevealEls
    /\ revealIO = IF hasIO THEN NewObserver(revealElements) ELSE NoObserver
    /\ elVisible = [e \in RevealEls |-> ~hasIO]

\* the same on a document without .fade-in-scroll elements
RevealQuiet ==
    /\ revealElements = {}
    /\ revealIO = IdleObserver
    /\ elVisible = [e \in {} |-> FALSE]

\* the browser computes the intersection of an observed element
RevealCompute(el, v) ==
    /\ CanCompute(revealIO, el, v)
    /\ revealIO' = Compute(revealIO, el, v)
    /\ UNCHANGED <<revealElements, elVisible>>
    /\ UNCHANGED notReveal

\* the browser runs the observer's callback on the queued entries
RevealNotify ==
    /\ revealIO.queue # <<>>
    /\ elVisible' = RevealHandleIntersection(elVisible, revealIO.queue)
    /\ revealIO' = TakeRecords(revealIO)
    /\ UNCHANGED revealElements
    /\ UNCHANGED notReveal

RevealNext ==
    \/ \E el \in revealElements, v \in Visibility : RevealCompute(el, v)
    \/ RevealNotify

(***************************************************************************)
(* StatsCounter                                                            *)
(***************************************************************************)
AnimationDuration == 2000
FrameMs == 16

\* duration / 16: the increment is target / Frames
Frames == AnimationDuration \div FrameMs

DecimalDigits == <<"0", "1", "2", "3", "4", "5", "6", "7", "8", "9">>
HexLower == DecimalDigits \o <<"a", "b", "c", "d", "e", "f">>
HexUpper == DecimalDigits \o <<"A", "B", "C", "D", "E", "F">>

IsDigit(c, radix) ==
    \E i \in 1..radix : HexLower[i] = c \/ HexUpper[i] = c

DigitValue(c) == (CHOOSE i \in 1..Len(HexLower) : HexLower[i] = c \/ HexUpper[i] = c) - 1

\* a JavaScript number as far as the counter needs it: NaN or an integer
NaN == [nan |-> TRUE, val |-> 0]
Num(n) == [nan |-> FALSE, val |-> n]

RECURSIVE StripLeft(_)
StripLeft(s) == IF s # <<>> /\ Head(s) = " " THEN StripLeft(Tail(s)) ELSE s

RECURSIVE ParseDigits(_, _, _, _)
\* the longest prefix of digits of s, read in the radix; NaN when it is empty
ParseDigits(s, radix, acc, seen) ==
    IF s = <<>> \/ ~IsDigit(Head(s), radix)
    THEN IF seen THEN Num(acc) ELSE NaN
    ELSE ParseDigits(Tail(s), radix, acc * radix + DigitValue(Head(s)), TRUE)

\* parseInt(string): leading blanks, a sign, "0x" for radix 16, then digits up
\* to the first character that is none
ParseInt(str) ==
    LET s == StripLeft(str)
        signed == s # <<>> /\ Head(s) \in {"-", "+"}
        negative == s # <<>> /\ Head(s) = "-"
        body == IF signed THEN Tail(s) ELSE s
        hex == Len(body) >= 2 /\ body[1] = "0" /\ body[2] \in {"x", "X"}
        r == IF hex THEN ParseDigits(Tail(Tail(body)), 16, 0, FALSE)
             ELSE ParseDigits(body, 10, 0, FALSE)
    IN  IF r.nan THEN NaN ELSE Num(IF negative THEN 0 - r.val ELSE r.val)

RECURSIVE NatToString(_)
NatToString(n) ==
    IF n < 10 THEN <<DecimalDigits[n + 1]>>
    ELSE NatToString(n \div 10) \o <<DecimalDigits[(n % 10) + 1]>>

\* String(number), which assigning a number to textContent applies
NumberToString(x) ==
    IF x.nan THEN <<"N", "a", "N">>
    ELSE IF x.val < 0 THEN <<"-">> \o NatToString(0 - x.val)
    ELSE NatToString(x.val)

(***************************************************************************)
(* current is a double: after k additions of target / Frames it is         *)
(* k * target / Frames up to a rounding error far smaller than 1 / Frames. *)
(* The error can only matter where the exact value is an integer (for      *)
(* Math.floor) or equals the target (for current < target), and only its   *)
(* sign matters there. It is 0 when target / Frames is an integer, and any *)
(* sign otherwise.                                                         *)
(***************************************************************************)
RoundingErrors(target) ==
    IF target.nan \/ target.val % Frames = 0 THEN {0} ELSE {0 - 1, 0, 1}

\* current < target after k additions
CurrentBelowTarget(target, k, err) ==
    /\ ~target.nan
    /\ \/ k * target.val < Frames * target.val
       \/ k * target.val = Frames * target.val /\ err < 0

\* Math.floor(current) after k additions
FloorCurrent(target, k, err) ==
    LET n == k * target.val
    IN  IF n % Frames = 0 /\ err < 0 THEN (n \div Frames) - 1 ELSE n \div Frames

UpdateCounter_noSnap(chain, err) ==
    LET k == chain.steps + 1
    IN  IF CurrentBelowTarget(chain.target, k, err)
        THEN [chain |-> [chain EXCEPT !.steps = k, !.live = TRUE],
              write |-> TRUE,
              text |-> NumberToString(Num(FloorCurrent(chain.target, k, err)))]
        ELSE [chain |-> [chain EXCEPT !.steps = k, !.live = FALSE],
              write |-> FALSE,
              text |-> <<>>]

UpdateCounter_stalls(chain, err) ==
    LET k == chain.steps + 1
    IN  IF CurrentBelowTarget(chain.target, k, err)
        THEN [chain |-> [chain EXCEPT !.steps = k, !.live = TRUE],
              write |-> TRUE,
              text |-> NumberToString(Num(FloorCurrent(chain.target, k, err)))]
        ELSE [chain |-> [chain EXCEPT !.live = TRUE],
              write |-> TRUE,
              text |-> NumberToString(chain.target)]

\* updateCounter: the chain after the call, and the textContent it wrote
UpdateCounter(chain, err) ==
    LET k == chain.steps + 1
    IN  IF CurrentBelowTarget(chain.target, k, err)
        THEN [chain |-> [chain EXCEPT !.steps = k, !.live = TRUE],
              write |-> TRUE,
              text |-> NumberToString(Num(FloorCurrent(chain.target, k, err)))]
        ELSE [chain |-> [chain EXCEPT !.steps = k, !.live = FALSE],
              write |-> TRUE,
              text |-> NumberToString(chain.target)]

\* what the observer callback and the animation read and write
StatsState ==
    [animated |-> animated, chains |-> chains, text |-> textContent,
     reentered |-> reentered]

\* StatsCounter.animateCounter: parse the target and run the first
\* updateCounter at once. No rounding has happened in the first addition
\* where it could matter (0 + x is x).
AnimateCounter(st, el) ==
    LET target == ParseInt(dataTarget[el])
        u == UpdateCounter([target |-> target, steps |-> 0, live |-> FALSE], 0)
    IN  [st EXCEPT !.chains[el] = Append(@, u.chain),
                   !.text[el] = IF u.write THEN u.text ELSE @]

StatsEntry_noCheck(st, entry) ==
    IF entry.isIntersecting
    THEN LET started == AnimateCounter(st, entry.target)
         IN  [started EXCEPT !.animated = @ \cup {entry.target},
                             !.reentered[entry.target] = entry.target \in st.animated]
    ELSE st

\* the body of the forEach of StatsCounter.handleIntersection
StatsEntry(st, entry) ==
    IF entry.isIntersecting /\ entry.target \notin st.animated
    THEN LET started == AnimateCounter(st, entry.target)
         IN  [started EXCEPT !.animated = @ \cup {entry.target}]
    ELSE IF entry.isIntersecting
         THEN [st EXCEPT !.reentered[entry.target] = TRUE]
         ELSE st

RECURSIVE StatsHandleIntersection(_, _)
\* StatsCounter.handleIntersection
StatsHandleIntersection(st, entries) ==
    IF entries = <<>>
    THEN st
    ELSE StatsHandleIntersection(StatsEntry(st, Head(entries)), Tail(entries))

\* the .stat-number elements of the document. One element: the elements share
\* nothing but the animated set, and one animation alone has over a hundred
\* steps.
StatEls == {"stat1"}

\* data-target attributes the documents of the model use
DataTargets ==
    {<<"0">>, <<"3">>, <<"1", "0", "0">>, <<"2", "5", "0">>, <<"1", "3", "0">>,
     <<" ", "7", "p", "x">>, <<"-", "5">>, <<"0", "x", "1", "F">>, <<"1", "2", ".", "5">>,
     <<"a", "b", "c">>, <<>>}

\* textContent of a stat element in the markup
MarkupText == <<"0">>

\* StatsCounter.constructor and init: observe every element when the browser
\* has an IntersectionObserver; init() has no other branch
StatsInit ==
    /\ statNumbers = StatEls
    /\ statsIO = IF hasIO THEN NewObserver(statNumbers) ELSE NoObserver
    /\ animated = {}
    /\ dataTarget \in [StatEls -> DataTargets]
    /\ textContent = [e \in StatEls |-> MarkupText]
    /\ chains = [e \in StatEls |-> <<>>]
    /\ reentered = [e \in StatEls |-> FALSE]

\* the same on a document without .stat-number elements
StatsQuiet ==
    /\ statNumbers = {}
    /\ statsIO = IdleObserver
    /\ animated = {}
    /\ dataTarget = [e \in {} |-> <<>>]
    /\ textContent = [e \in {} |-> <<>>]
    /\ chains = [e \in {} |-> <<>>]
    /\ reentered = [e \in {} |-> FALSE]

\* the browser computes the intersection of an observed stat element
StatsCompute(el, v) ==
    /\ CanCompute(statsIO, el, v)
    /\ statsIO' = Compute(statsIO, el, v)
    /\ UNCHANGED <<statNumbers, animated, dataTarget, textContent, chains, reentered>>
    /\ UNCHANGED notStats

\* the browser runs the observer's callback on the queued entries
StatsNotify ==
    /\ statsIO.queue # <<>>
    /\ LET st == StatsHandleIntersection(StatsState, statsIO.queue)
       IN  /\ animated' = st.animated
           /\ chains' = st.chains
           /\ textContent' = st.text
           /\ reentered' = st.reentered
    /\ statsIO' = TakeRecords(statsIO)
    /\ UNCHANGED <<statNumbers, dataTarget>>
    /\ UNCHANGED notStats

\* the browser runs a requested animation frame: updateCounter of chain i of el
AnimationFrame(el, i) ==
    /\ i \in DOMAIN chains[el]
    /\ chains[el][i].live
    /\ \E err \in RoundingErrors(chains[el][i].target) :
          LET u == UpdateCounter(chains[el][i], err)
          IN  /\ chains' = [chains EXCEPT ![el][i] = u.chain]
              /\ textContent' = IF u.write THEN [textContent EXCEPT ![el] = u.text]
                                ELSE textContent
    /\ UNCHANGED <<statNumbers, statsIO, animated, dataTarget, reentered>>
    /\ UNCHANGED notStats

StatsNext ==
    \/ \E el \in statNumbers, v \in Visibility : StatsCompute(el, v)
    \/ StatsNotify
    \/ \E el \in statNumbers : \E i \in DOMAIN chains[el] : AnimationFrame(el, i)

(***************************************************************************)
(* debounce                                                                *)
(*                                                                         *)
(* A debounced function is the closure variable timeout plus the timers    *)
(* it has pending in the browser: [timeout, timers, invoked]. invoked      *)
(* lists the arguments of the calls of func that the last call of          *)
(* executedFunction or later made, for the caller to carry out.            *)
(***************************************************************************)
\* timers the browser can hold at once (the handles are 1..MaxTimers)
MaxTimers == 2

\* longest burst of triggers the history counts
MaxBurst == 2

ParallaxWait == 5

\* window.setTimeout(callback, wait): a new timer under an unused handle
SetTimeout(pending, args, wait) ==
    LET used == {t.id : t \in pending}
        id == CHOOSE i \in (1..MaxTimers) \ used : \A j \in (1..MaxTimers) \ used : i <= j
    IN  [id |-> id, left |-> wait, args |-> args]

\* window.clearTimeout(id): nothing happens for undefined or a timer that ran
ClearTimeout(pending, id) == {t \in pending : t.id # id}

ExecutedFunction_keepsTimer(d, args, wait) ==
    LET timer == SetTimeout(d.timers, args, wait)
    IN  [timeout |-> timer.id, timers |-> d.timers \cup {timer}, invoked |-> <<>>]

\* executedFunction(...args): the function debounce returns
ExecutedFunction(d, args, wait) ==
    LET cleared == ClearTimeout(d.timers, d.timeout)
        timer == SetTimeout(cleared, args, wait)
    IN  [timeout |-> timer.id, timers |-> cleared \cup {timer}, invoked |-> <<>>]

\* later(): the callback of the timer, which the browser has just removed
Later(d, timer) ==
    [timeout |-> d.timeout,
     timers |-> ClearTimeout(d.timers \ {timer}, d.timeout),
     invoked |-> <<timer.args>>]

(***************************************************************************)
(* ParallaxEffect                                                          *)
(***************************************************************************)
Heights == {BackToTopThreshold, MaxScrollY + 1}

\* heroImg.style.transform of the markup: none
NoTransform == <<>>

\* `translateY(${scrolled * 0.5}px)`: the integer part and the first decimal
\* of half the offset (the product is exact)
TranslateY(scrolled) == <<scrolled \div 2, (scrolled % 2) * 5>>

ParallaxUpdate_always(transform, scrolled, height) == TranslateY(scrolled)

\* the function ParallaxEffect.init hands to debounce
ParallaxUpdate(transform, scrolled, height) ==
    IF scrolled < height THEN TranslateY(scrolled) ELSE transform

\* the debounced function of ParallaxEffect
Debounced == [timeout |-> dbTimeout, timers |-> timers, invoked |-> dbInvoked]

\* the function runs for every call the debounce made; it ignores the
\* arguments and reads window.scrollY and window.innerHeight itself
RECURSIVE RunParallax(_, _)
RunParallax(transform, invoked) ==
    IF invoked = <<>>
    THEN transform
    ELSE RunParallax(ParallaxUpdate(transform, scrollY, innerHeight), Tail(invoked))

\* ParallaxEffect.constructor and init, and a window of some height
ParallaxInit ==
    /\ innerHeight \in Heights
    /\ timers = {}
    /\ heroTransform = NoTransform
    /\ dbTimeout = NoValue
    /\ dbInvoked = <<>>
    /\ dbSince = ParallaxWait
    /\ dbBurst = 0

\* one millisecond passes while a timer is pending
Tick ==
    /\ timers # {}
    /\ \/ dbSince < ParallaxWait
       \/ \E t \in timers : t.left > 0
    /\ timers' = {[t EXCEPT !.left = IF @ > 0 THEN @ - 1 ELSE 0] : t \in timers}
    /\ dbSince' = IF dbSince < ParallaxWait THEN dbSince + 1 ELSE dbSince
    /\ UNCHANGED <<innerHeight, heroTransform, dbTimeout, dbInvoked, dbBurst>>
    /\ UNCHANGED <<pageVars, navVars, backToTopVisible, clickResult, lastClick,
                   lastEventY, threw>>
    /\ UNCHANGED notUi

\* the browser runs a timer whose delay is over (at that time or later)
TimerFires(timer) ==
    /\ timer \in timers
    /\ timer.left = 0
    /\ LET d == Later(Debounced, timer)
       IN  /\ timers' = d.timers
           /\ dbTimeout' = d.timeout
           /\ dbInvoked' = d.invoked
           /\ heroTransform' = RunParallax(heroTransform, d.invoked)
           /\ dbBurst' = IF d.invoked # <<>> /\ dbBurst > 0 THEN 0 - dbBurst ELSE dbBurst
    /\ UNCHANGED <<innerHeight, dbSince>>
    /\ UNCHANGED <<pageVars, navVars, backToTopVisible, clickResult, lastClick,
                   lastEventY, threw>>
    /\ UNCHANGED notUi

\* the window gets another height
ResizeHeight(h) ==
    /\ h # innerHeight
    /\ innerHeight' = h
    /\ UNCHANGED <<timers, heroTransform, dbTimeout, dbInvoked, dbSince, dbBurst>>
    /\ UNCHANGED <<pageVars, navVars, backToTopVisible, clickResult, lastClick,
                   lastEventY, threw>>
    /\ UNCHANGED notUi

(***************************************************************************)
(* Initial state: the page right after DOMContentLoaded built the          *)
(* components. The page may already be scrolled (a reload that restores    *)
(* the position, a URL with a fragment); the markup carries no flag.       *)
(***************************************************************************)
\* the window.addEventListener('scroll', ...) calls of the constructors, in
\* the order DOMContentLoaded runs them: Navigation, BackToTop, ParallaxEffect
ScrollListenersOf_first(d) == <<"Navigation.handleScroll">>

ScrollListenersOf(d) ==
    <<"Navigation.handleScroll">>
    \o (IF d["backToTop"] THEN <<"BackToTop.handleScroll">> ELSE <<>>)
    \o (IF d["heroImg"] THEN <<"executedFunction">> ELSE <<>>)

\* the document and what the constructors registered on window
PageInit(d) ==
    /\ dom = d
    /\ scrollListeners = ScrollListenersOf(d)

UiInit ==
    /\ threw = FALSE
    /\ scrollY \in InitialOffsets
    /\ innerWidth \in Widths
    /\ scrollEventPending \in (IF scrollY = 0 THEN {FALSE} ELSE BOOLEAN)
    /\ smoothTarget = NoValue
    /\ lastScrollY = scrollY
    /\ navbarScrolled = FALSE
    /\ toggleActive = FALSE
    /\ menuActive = FALSE
    /\ bodyOverflow = ""
    /\ backToTopVisible = FALSE
    /\ clickResult = NoCall
    /\ lastClick = [target |-> NoTarget, width |-> innerWidth, wasOpen |-> FALSE]
    /\ lastEventY = NoValue

(***************************************************************************)
(* Browser events                                                          *)
(***************************************************************************)
\* the user scrolls the page to y; a running smooth scroll is abandoned
UserScroll(y) ==
    /\ y # scrollY
    /\ scrollY' = y
    /\ scrollEventPending' = TRUE
    /\ smoothTarget' = NoValue
    /\ UNCHANGED <<innerWidth, navVars, backToTopVisible, clickResult, lastClick,
                   lastEventY, threw, parallaxVars>>
    /\ UNCHANGED notUi

\* one frame of the running smooth scroll: the position moves towards the
\* destination, and the scroll ends when it gets there
SmoothScrollStep(y) ==
    /\ smoothTarget # NoValue
    /\ \/ scrollY < y /\ y <= smoothTarget
       \/ smoothTarget <= y /\ y < scrollY
    /\ scrollY' = y
    /\ scrollEventPending' = TRUE
    /\ smoothTarget' = IF y = smoothTarget THEN NoValue ELSE smoothTarget
    /\ UNCHANGED <<innerWidth, navVars, backToTopVisible, clickResult, lastClick,
                   lastEventY, threw, parallaxVars>>
    /\ UNCHANGED notUi

\* the window is resized (or the device rotated)
Resize(w) ==
    /\ w # innerWidth
    /\ innerWidth' = w
    /\ UNCHANGED <<scrollY, scrollEventPending, smoothTarget, navVars,
                   backToTopVisible, clickResult, lastClick, lastEventY, threw,
                   parallaxVars>>
    /\ UNCHANGED notUi

\* what the scroll listeners read and write
ScrollState ==
    [scrolled |-> navbarScrolled, lastScrollY |-> lastScrollY,
     visible |-> backToTopVisible, threw |-> threw, menu |-> MenuState,
     debounced |-> Debounced, transform |-> heroTransform,
     since |-> dbSince, burst |-> dbBurst]

\* the debounced listener of ParallaxEffect, called with the scroll event
\* (args tells the event from others)
ParallaxTrigger(sc, args) ==
    LET d == ExecutedFunction(sc.debounced, args, ParallaxWait)
    IN  [sc EXCEPT !.debounced = d,
                   !.transform = RunParallax(@, d.invoked),
                   !.since = 0,
                   !.burst = IF d.invoked # <<>> THEN 0 - 1
                             ELSE IF @ <= 0 THEN 1
                             ELSE IF @ < MaxBurst THEN @ + 1 ELSE @]

\* one listener of window's 'scroll' runs; an exception in it is reported
\* and the next listener still runs
RunScrollListener(sc, listener, y) ==
    CASE listener = "Navigation.handleScroll" -> NavHandleScroll(dom, sc, y)
      [] listener = "BackToTop.handleScroll"  -> [sc EXCEPT !.visible = BackToTopShown(y)]
      [] listener = "executedFunction"        -> ParallaxTrigger(sc, y)

RECURSIVE RunScrollListeners(_, _, _)
RunScrollListeners(sc, listeners, y) ==
    IF listeners = <<>>
    THEN sc
    ELSE RunScrollListeners(RunScrollListener(sc, Head(listeners), y), Tail(listeners), y)

\* the scroll event: every listener of window's 'scroll', in the order they
\* were added. The event is told from others by the offset it is dispatched at.
DispatchScroll ==
    /\ scrollEventPending
    /\ \/ "executedFunction" \notin {scrollListeners[i] : i \in DOMAIN scrollListeners}
       \/ Cardinality(timers) < MaxTimers
    /\ scrollEventPending' = FALSE
    /\ LET sc == RunScrollListeners(ScrollState, scrollListeners, scrollY)
       IN  /\ navbarScrolled' = sc.scrolled
           /\ lastScrollY' = sc.lastScrollY
           /\ backToTopVisible' = sc.visible
           /\ threw' = sc.threw
           /\ toggleActive' = sc.menu.toggle
           /\ menuActive' = sc.menu.menu
           /\ bodyOverflow' = sc.menu.overflow
           /\ timers' = sc.debounced.timers
           /\ dbTimeout' = sc.debounced.timeout
           /\ dbInvoked' = sc.debounced.invoked
           /\ heroTransform' = sc.transform
           /\ dbSince' = sc.since
           /\ dbBurst' = sc.burst
    /\ lastEventY' = scrollY
    /\ UNCHANGED <<scrollY, innerWidth, innerHeight, smoothTarget, clickResult,
                   lastClick>>
    /\ UNCHANGED notUi

\* a click on t: the listeners on the way up to document, document's own
\* listener, then the browser's default action unless it was prevented
Click(t, navbarHeight) ==
    LET onTarget == TargetClickOn(dom, MenuState, t, innerWidth)
        onDocument == DocumentClickOn(dom, onTarget.m, t, innerWidth)
        scroll == ClickScrollOn(dom, t, navbarHeight)
        m == onDocument.m
        r == scroll.r
        \* the default action of an in-page link is to go to its fragment:
        \* the page jumps to the element with that id, or to the top for "#"
        jumps == t.href = <<"#">> /\ ~r.prevented
        dest == IF jumps THEN 0 ELSE Clamp(r.top)
    IN  /\ t.el \in Elements => dom[t.el]
        /\ threw' = (threw \/ onTarget.threw \/ onDocument.threw \/ scroll.threw)
        /\ toggleActive' = m.toggle
        /\ menuActive' = m.menu
        /\ bodyOverflow' = m.overflow
        /\ clickResult' = r
        /\ lastClick' = [target |-> t, width |-> innerWidth, wasOpen |-> menuActive]
        /\ IF jumps
           THEN /\ scrollY' = 0
                /\ scrollEventPending' = (scrollEventPending \/ scrollY # 0)
                /\ smoothTarget' = NoValue
           ELSE /\ scrollY' = scrollY
                /\ scrollEventPending' = scrollEventPending
                /\ smoothTarget' = IF ~r.called THEN smoothTarget
                                   ELSE IF dest = scrollY THEN NoValue
                                   ELSE dest
        /\ UNCHANGED <<innerWidth, lastScrollY, navbarScrolled, backToTopVisible,
                       lastEventY, parallaxVars>>
        /\ UNCHANGED notUi

UiNext ==
    \/ \E y \in UserOffsets : UserScroll(y)
    \/ \E y \in ScrollPositions : SmoothScrollStep(y)
    \/ \E w \in Widths : Resize(w)
    \/ DispatchScroll
    \/ \E t \in ClickTargets, h \in NavbarHeights : Click(t, h)

\* the page at the top, nothing pending
UiQuiet == UiInit /\ scrollY = 0 /\ innerWidth = MobileBreakpoint

\* a document without a .hero-img: ParallaxEffect.init returns at once
ParallaxQuiet == ParallaxInit /\ innerHeight = MaxScrollY + 1

(***************************************************************************)
(* Specifications: one per component, the others on a document that holds  *)
(* none of their elements                                                  *)
(***************************************************************************)
InitNav == hasIO = TRUE /\ PageInit(Without("heroImg")) /\ ParallaxQuiet /\ UiInit /\ LazyQuiet /\ RevealQuiet /\ StatsQuiet
SpecNav == InitNav /\ [][UiNext]_vars

InitLazy == hasIO = TRUE /\ PageInit(Without("heroImg")) /\ ParallaxQuiet /\ UiQuiet /\ LazyInit /\ RevealQuiet /\ StatsQuiet
SpecLazy == InitLazy /\ [][LazyNext]_vars

InitReveal == hasIO = TRUE /\ PageInit(Without("heroImg")) /\ ParallaxQuiet /\ UiQuiet /\ LazyQuiet /\ RevealInit /\ StatsQuiet
SpecReveal == InitReveal /\ [][RevealNext]_vars

InitStats == hasIO = TRUE /\ PageInit(Without("heroImg")) /\ ParallaxQuiet /\ UiQuiet /\ LazyQuiet /\ RevealQuiet /\ StatsInit
SpecStats == InitStats /\ [][StatsNext]_vars

\* the same, where the browser delivers every animation frame that was
\* requested: a live chain is a pending requestAnimationFrame callback
FramesDelivered ==
    \A el \in StatEls : WF_vars(\E i \in DOMAIN chains[el] : AnimationFrame(el, i))

SpecStatsFair == InitStats /\ [][StatsNext]_vars /\ FramesDelivered

\* ParallaxEffect, BackToTop and Navigation on a document with all their
\* elements: scrolling, scroll events, timers, another window height
InitParallax ==
    /\ hasIO = TRUE /\ PageInit(AllPresent) /\ ParallaxInit /\ UiQuiet
    /\ LazyQuiet /\ RevealQuiet /\ StatsQuiet

ParallaxNext ==
    \/ \E y \in UserOffsets : UserScroll(y)
    \/ DispatchScroll
    \/ Tick
    \/ \E timer \in timers : TimerFires(timer)
    \/ \E h \in Heights : ResizeHeight(h)

SpecParallax == InitParallax /\ [][ParallaxNext]_vars

\* the whole page on a document with all the elements: scrolling, scroll
\* events, timers, and clicks that start no scroll of their own (the menu
\* toggle, the menu, a menu link to "#" or to an id the document lacks, an
\* arbitrary place of the page)
PageClickTargets ==
    {t \in ClickTargets : /\ t.el \in {"menuToggle", "navMenu", "navLink", "page"}
                          /\ t.href \in {<<>>, <<"#">>, <<"#", "a">>}}

InitPage ==
    /\ hasIO = TRUE /\ PageInit(AllPresent) /\ UiQuiet
    /\ ParallaxInit /\ innerHeight = MaxScrollY + 1
    /\ LazyQuiet /\ RevealQuiet /\ StatsQuiet

PageNext ==
    \/ \E y \in UserOffsets : UserScroll(y)
    \/ DispatchScroll
    \/ Tick
    \/ \E timer \in timers : TimerFires(timer)
    \/ \E t \in PageClickTargets, h \in NavbarHeights : Click(t, h)

SpecPage == InitPage /\ [][PageNext]_vars

\* documents without a .hero-img that lack at most one more of the elements
\* the components look up
MissingOne ==
    {[Without("heroImg") EXCEPT ![e] = FALSE] : e \in Elements}

InitMissing ==
    /\ hasIO = TRUE
    /\ \E d \in MissingOne : PageInit(d)
    /\ ParallaxQuiet /\ UiQuiet
    /\ LazyQuiet /\ RevealQuiet /\ StatsQuiet

\* everything the user does but resizing the window
MissingNext ==
    \/ \E y \in UserOffsets : UserScroll(y)
    \/ \E y \in ScrollPositions : SmoothScrollStep(y)
    \/ DispatchScroll
    \/ \E t \in ClickTargets, h \in NavbarHeights : Click(t, h)

SpecMissing == InitMissing /\ [][MissingNext]_vars

\* a browser without IntersectionObserver: the three observing components on
\* a document with their elements. No observer exists, so no intersection is
\* ever computed; the preloads finish and the user scrolls.
InitDegraded ==
    hasIO = FALSE /\ PageInit(Without("heroImg")) /\ ParallaxQuiet /\ UiQuiet /\ LazyInit /\ RevealInit /\ StatsInit

DegradedNext ==
    \/ \E img \in lazyImages : PreloadLoaded(img)
    \/ \E img \in lazyImages : PreloadFailed(img)
    \/ \E y \in UserOffsets : UserScroll(y)
    \/ DispatchScroll

SpecDegraded == InitDegraded /\ [][DegradedNext]_vars

(***************************************************************************)
(* Properties of Navigation, BackToTop and SmoothScroll (under SpecNav)    *)
(*                                                                         *)
(* Click(t, h) sets lastClick'.target to t, so a step is a click on t only *)
(* when t = lastClick'.target: the action properties below look at that    *)
(* one target instead of at every target.                                  *)
(***************************************************************************)
OutsideTargets == {t \in ClickTargets : ~InNavMenu(t) /\ ~InMenuToggle(t)}
Closed == [toggle |-> FALSE, menu |-> FALSE, overflow |-> ""]
Open == [toggle |-> TRUE, menu |-> TRUE, overflow |-> "hidden"]

\* C1: menu state machine. A toggle click from Closed opens the menu and locks
\* body scroll; from Open, a toggle click, or a menu-link click at a width
\* <= 768 (the width at the time of the click), closes it and restores body
\* scroll; a menu-link click at a width > 768 leaves it Open.
C1_MenuStateMachine ==
    [][\A h \in NavbarHeights :
          LET t == lastClick'.target IN
          Click(t, h) =>
            /\ (t.el = "menuToggle" /\ MenuState = Closed) => MenuState' = Open
            /\ (t.el = "menuToggle" /\ MenuState = Open) => MenuState' = Closed
            /\ (t.el = "navLink" /\ MenuState = Open /\ innerWidth <= MobileBreakpoint)
                  => MenuState' = Closed
            /\ (t.el = "navLink" /\ MenuState = Open /\ innerWidth > MobileBreakpoint)
                  => MenuState' = Open]_vars

\* the menu is still open after a menu-link click on a wide viewport
C1_Witness ==
    /\ lastClick.target.el = "navLink"
    /\ lastClick.wasOpen
    /\ lastClick.width > MobileBreakpoint
    /\ MenuState = Open

\* C2: in every reachable state the toggle button is 'active' iff the menu
\* container is 'active' iff body overflow is 'hidden'.
C2_MenuMirrored ==
    /\ toggleActive = menuActive
    /\ menuActive = (bodyOverflow = "hidden")
    /\ bodyOverflow \in {"", "hidden"}

\* an open menu was closed by a click outside
C2_Witness ==
    /\ lastClick.target \in OutsideTargets
    /\ lastClick.wasOpen
    /\ MenuState = Closed

\* C3: a click outside the menu and the toggle closes the menu exactly when
\* the width is <= 768 and the menu is open; a click inside the menu (not on
\* a link) changes nothing; a toggle click flips the state exactly once.
C3_OutsideClick ==
    [][\A h \in NavbarHeights :
          LET t == lastClick'.target IN
          Click(t, h) =>
            /\ t \in OutsideTargets =>
                 MenuState' = IF innerWidth <= MobileBreakpoint /\ menuActive
                              THEN Closed ELSE MenuState
            /\ t.el = "navMenu" => MenuState' = MenuState
            /\ t.el = "menuToggle" =>
                 /\ menuActive' = ~menuActive
                 /\ toggleActive' = ~toggleActive]_vars

\* on a narrow viewport a toggle click has opened the menu, and it stays open
C3_Witness ==
    /\ lastClick.target.el = "menuToggle"
    /\ ~lastClick.wasOpen
    /\ lastClick.width <= MobileBreakpoint
    /\ MenuState = Open

\* C4: in every reachable state the navbar has 'scrolled' iff
\* Navigation.lastScrollY > 100.
C4_ScrolledIffLastScrollY == navbarScrolled = (lastScrollY > NavbarScrollThreshold)

\* C5: once a scroll event was delivered, the back-to-top control is 'visible'
\* iff the offset read by the most recent scroll event is > 500; a click on
\* the control leaves the flag alone and calls window.scrollTo with top 0.
C5_BackToTop ==
    /\ [](lastEventY # NoValue => backToTopVisible = (lastEventY > BackToTopThreshold))
    /\ [][\A h \in NavbarHeights :
            Click([el |-> "backToTop", href |-> <<>>], h) =>
              /\ backToTopVisible' = backToTopVisible
              /\ clickResult'.called /\ clickResult'.top = 0]_vars

\* the control was clicked at an offset > 500, the page has scrolled back to
\* exactly 500 and the event for it cleared the flag
C5_Witness ==
    /\ lastClick.target.el = "backToTop"
    /\ lastEventY = BackToTopThreshold
    /\ ~backToTopVisible

\* C10: a click on an in-page anchor other than "#" always prevents the
\* default; when no element has the id it calls no scrollTo and the scroll
\* position and the running scroll are left as they are; when the element
\* exists it calls scrollTo with offsetTop - navbarHeight.
C10_MissingAnchor ==
    [][\A h \in NavbarHeights :
          LET t == lastClick'.target IN
          (t.el \in {"navLink", "anchor"} /\ t.href # <<"#">> /\ Click(t, h)) =>
            /\ clickResult'.prevented
            /\ IF Tail(t.href) \in ElementIds
               THEN /\ clickResult'.called
                    /\ clickResult'.top = OffsetTop[Tail(t.href)] - h
               ELSE /\ ~clickResult'.called
                    /\ scrollY' = scrollY
                    /\ smoothTarget' = smoothTarget
                    /\ scrollEventPending' = scrollEventPending]_vars

\* an anchor whose id matches nothing was clicked while the page was scrolled
C10_Witness ==
    /\ lastClick.target.href = <<"#", "a">>
    /\ clickResult.prevented
    /\ ~clickResult.called
    /\ scrollY > 0

(***************************************************************************)
(* Properties of LazyLoader (under SpecLazy)                               *)
(***************************************************************************)
\* C6: for every lazy image, at most one preload is ever started, whatever
\* entries the observer delivers, two intersecting entries for one image in
\* the same batch included.
C6_LoadsOnce == \A img \in lazyImages : imgPreloadStarts[img] <= 1

(***************************************************************************)
(* Properties of ScrollAnimations (under SpecReveal)                       *)
(***************************************************************************)
\* C7: once a reveal element has the 'visible' flag, no step removes it.
C7_VisibleIsPermanent ==
    [][\A el \in revealElements : elVisible[el] => elVisible'[el]]_vars

\* an element was revealed, left the viewport, and the entry for that was
\* delivered
C7_Witness ==
    \E el \in revealElements :
        /\ elVisible[el]
        /\ revealIO.last[el] = "out"
        /\ revealIO.queue = <<>>

(***************************************************************************)
(* Properties of StatsCounter (under SpecStats)                            *)
(***************************************************************************)
\* the number a stat element displays
Displayed(el) == ParseInt(textContent[el])

\* the element displays an integer, written the way String(n) writes it
DisplaysInteger(el) ==
    /\ ~Displayed(el).nan
    /\ NumberToString(Displayed(el)) = textContent[el]

\* the element was animated, towards a non-negative integer
CountsUp(el) ==
    /\ chains[el] # <<>>
    /\ ~chains[el][1].target.nan
    /\ chains[el][1].target.val >= 0

\* C8: for a non-negative integer target, every value animateCounter writes is
\* an integer <= target; while the running total k * target / 125 is below the
\* target the value is its floor; the value written on the step where the
\* total reaches or exceeds the target, the last one, is the target itself;
\* and the values written never decrease.
C8_CounterValues ==
    /\ [](\A el \in statNumbers :
            CountsUp(el) =>
              LET c == chains[el][1]
                  n == c.steps * c.target.val
              IN  /\ DisplaysInteger(el)
                  /\ Displayed(el).val <= c.target.val
                  /\ c.live =>
                       /\ n <= Frames * c.target.val
                       /\ Displayed(el).val \in
                            {n \div Frames} \cup
                            (IF n % Frames = 0 THEN {(n \div Frames) - 1} ELSE {})
                  /\ ~c.live =>
                       /\ n >= Frames * c.target.val
                       /\ Displayed(el).val = c.target.val)
    /\ [][\A el \in statNumbers :
            (CountsUp(el) /\ CountsUp(el)') => Displayed(el)'.val >= Displayed(el).val]_vars

\* the animation towards 100 has finished, one step late because the sum of
\* 125 increments of 0.8 fell below 100
C8_Witness ==
    \E el \in statNumbers :
        /\ dataTarget[el] = <<"1", "0", "0">>
        /\ chains[el] # <<>>
        /\ ~chains[el][1].live
        /\ chains[el][1].steps = Frames + 1
        /\ textContent[el] = <<"1", "0", "0">>

\* C9: animateCounter is called at most once for each stat element, so at
\* most one step chain per element is ever live.
C9_AnimatedOnce ==
    \A el \in statNumbers :
        /\ Len(chains[el]) <= 1
        /\ Cardinality({i \in DOMAIN chains[el] : chains[el][i].live}) <= 1

\* an intersecting entry for the element was delivered while its animation
\* was running, and the animation went on alone
C9_Witness ==
    \E el \in statNumbers :
        /\ reentered[el]
        /\ Len(chains[el]) = 1
        /\ chains[el][1].live
        /\ chains[el][1].steps > 2

(***************************************************************************)
(* Properties of the browser without IntersectionObserver (SpecDegraded)   *)
(***************************************************************************)
\* the image carried a data-src attribute when the page was built: only
\* onload removes the attribute, and it assigns the source
HadDataSrc(img) == imgDataSrc[img] \/ imgSrcAssigned[img]

\* the images that carried a data-src attribute, in document order
DeferredInOrder == SelectSeq(DocumentOrder, HadDataSrc)

\* C11: without IntersectionObserver, initialization alone (no scroll or
\* intersection event needed) starts the load of every lazy image that
\* carries a deferred source, once each and in document order, and marks
\* every reveal element 'visible'; neither component creates an observer,
\* so nothing later adds a load.
C11_DegradedInit ==
    /\ ~lazyIO.created /\ ~revealIO.created
    /\ preloadLog = DeferredInOrder
    /\ \A img \in lazyImages :
          imgPreloadStarts[img] = (IF HadDataSrc(img) THEN 1 ELSE 0)
    /\ \A el \in revealElements : elVisible[el]

\* the page just built, before any event: both images carry a data-src and
\* both preloads are in flight, every reveal element is shown
C11_Witness ==
    /\ ~hasIO
    /\ lastEventY = NoValue /\ ~scrollEventPending
    /\ \A img \in lazyImages : imgDataSrc[img] /\ imgPreloads[img] = 1
    /\ preloadLog = DocumentOrder
    /\ revealElements # {} /\ \A el \in revealElements : elVisible[el]
    /\ ~lazyIO.created /\ ~revealIO.created

\* C12: without IntersectionObserver every stat counter's animation is
\* started at initialization (the first step towards displaying its target).
\* StatsCounter.init has no fallback branch: no animateCounter call is ever
\* made, and the elements keep the text of the markup.
C12_CountersStarted ==
    ~hasIO => \A el \in statNumbers : chains[el] # <<>>

(***************************************************************************)
(* Properties of LazyLoader.loadImage (under SpecLazy)                     *)
(***************************************************************************)
\* preloads of the image that have finished, and those that finished in onload
Completed(img) == imgPreloadStarts[img] - imgPreloads[img]
Succeeded(img) == Completed(img) - imgErrors[img]

\* C14: a preload that completes leaves the image 'loaded' either way; onload
\* assigns the real source and clears data-src; onerror assigns nothing,
\* keeps data-src and reports the failure to the console; 'loaded' is added
\* only by a completing preload and never removed. In every state the flags
\* therefore say how the preloads of the image ended.
C14_LoadOutcome ==
    /\ [](\A img \in lazyImages :
            /\ imgLoaded[img] <=> Completed(img) > 0
            /\ imgSrcAssigned[img] <=> Succeeded(img) > 0
            /\ Succeeded(img) > 0 => ~imgDataSrc[img]
            /\ (imgErrors[img] > 0 /\ Succeeded(img) = 0) =>
                  imgDataSrc[img] /\ ~imgSrcAssigned[img])
    /\ [][\A img \in lazyImages :
            /\ PreloadLoaded(img) =>
                  /\ imgLoaded'[img] /\ imgSrcAssigned'[img] /\ ~imgDataSrc'[img]
                  /\ imgErrors' = imgErrors
            /\ PreloadFailed(img) =>
                  /\ imgLoaded'[img]
                  /\ imgSrcAssigned' = imgSrcAssigned /\ imgDataSrc' = imgDataSrc
                  /\ imgErrors'[img] = imgErrors[img] + 1
            /\ imgLoaded[img] => imgLoaded'[img]
            /\ (imgLoaded'[img] /\ ~imgLoaded[img]) => Completed(img)' > Completed(img)
            /\ imgErrors'[img] # imgErrors[img] => Completed(img)' > Completed(img)
        ]_vars

\* one image whose only preload failed, another whose only preload succeeded
C14_Witness ==
    \E failed, ok \in lazyImages :
        /\ imgPreloadStarts[failed] = 1 /\ imgPreloads[failed] = 0
        /\ imgErrors[failed] = 1 /\ imgLoaded[failed]
        /\ imgDataSrc[failed] /\ ~imgSrcAssigned[failed]
        /\ imgPreloadStarts[ok] = 1 /\ imgPreloads[ok] = 0
        /\ imgErrors[ok] = 0 /\ imgLoaded[ok]
        /\ ~imgDataSrc[ok] /\ imgSrcAssigned[ok]

(***************************************************************************)
(* Termination of the counter animation (under SpecStatsFair)              *)
(***************************************************************************)
\* every animateCounter call made for el has ended with its target displayed
CounterDone(el) ==
    \A i \in DOMAIN chains[el] :
        /\ ~chains[el][i].live
        /\ textContent[el] = NumberToString(chains[el][i].target)

\* C16: a started step chain is never cancelled (it stays, and stays live
\* until its own step ends it), takes at most Frames + 1 steps, and, when
\* every requested frame is delivered, ends with the parsed target
\* displayed, whatever the target (positive, zero, negative, NaN); after
\* the last step no frame is requested and the text is left alone.
C16_CounterTerminates ==
    /\ \A el \in StatEls : (chains[el] # <<>>) ~> CounterDone(el)
    /\ [](\A el \in statNumbers : \A i \in DOMAIN chains[el] :
             chains[el][i].steps <= Frames + 1)
    /\ [][\A el \in statNumbers : \A i \in DOMAIN chains[el] :
            /\ i \in DOMAIN chains'[el]
            /\ chains[el][i].live =>
                  \/ chains'[el][i] = chains[el][i]
                  \/ chains'[el][i].steps = chains[el][i].steps + 1
            /\ ~chains[el][i].live =>
                  /\ chains'[el][i] = chains[el][i]
                  /\ CounterDone(el) => textContent'[el] = textContent[el]
        ]_vars

\* an unparsable data-target: the first step ended the chain with "NaN" shown
C16_Witness ==
    \E el \in statNumbers :
        /\ Len(chains[el]) = 1
        /\ chains[el][1].target.nan
        /\ chains[el][1].steps = 1
        /\ CounterDone(el)

(***************************************************************************)
(* Properties of debounce and ParallaxEffect (under SpecParallax)          *)
(*                                                                         *)
(* The debounced function is triggered by DispatchScroll alone, and a      *)
(* burst closes (dbBurst turns negative) in the step that runs func.       *)
(***************************************************************************)
\* C13: a trigger never runs func: it cancels the pending timer and sets one
\* for the full wait with its own arguments, so at most one timer is
\* pending and a burst still open has exactly one; func runs only from a
\* timer, once, when the wait has passed since the last trigger, with the
\* arguments of the last trigger, and that closes the burst.
C13_TrailingEdge ==
    /\ [](/\ Cardinality(timers) <= 1
          /\ (timers # {}) <=> (dbBurst > 0)
          /\ \A t \in timers :
                /\ t.id = dbTimeout
                /\ t.args = lastEventY
                /\ t.left = ParallaxWait - dbSince)
    /\ [][/\ DispatchScroll =>
              /\ dbInvoked' = <<>>
              /\ dbBurst' > 0
              /\ \A t \in timers' : t.left = ParallaxWait /\ t.args = scrollY
          /\ \A timer \in timers : TimerFires(timer) =>
              /\ dbBurst > 0 /\ dbBurst' = 0 - dbBurst
              /\ dbSince = ParallaxWait
              /\ dbInvoked' = <<lastEventY>>
              /\ timers' = {}
          /\ dbBurst' # dbBurst => (DispatchScroll \/ \E timer \in timers : TimerFires(timer))
      ]_vars

\* a burst of MaxBurst triggers, then the one call, with the arguments of the
\* last of them
C13_Witness ==
    /\ dbBurst = 0 - MaxBurst
    /\ dbInvoked = <<lastEventY>>
    /\ timers = {}

\* C15: the transform is written only when the timer of the debounced
\* listener runs, never by a scroll event itself; with the offset read at
\* that time below the window height it becomes translateY(offset * 0.5 px),
\* otherwise it stays as it is.
C15_ParallaxTransform ==
    [][/\ heroTransform' # heroTransform => \E timer \in timers : TimerFires(timer)
       /\ \A timer \in timers : TimerFires(timer) =>
             IF scrollY < innerHeight
             THEN /\ Len(heroTransform') = 2
                  /\ 10 * heroTransform'[1] + heroTransform'[2] = 5 * scrollY
             ELSE heroTransform' = heroTransform
      ]_vars

\* the timer ran after the page had moved on from where the event was
\* dispatched, to an odd offset: the transform is half of the later offset
C15_Witness ==
    /\ dbInvoked = <<lastEventY>>
    /\ timers = {}
    /\ scrollY # lastEventY
    /\ scrollY % 2 = 1
    /\ scrollY < innerHeight
    /\ heroTransform = <<(scrollY - 1) \div 2, 5>>

(***************************************************************************)
(* Documents that lack an element (under SpecMissing)                      *)
(***************************************************************************)
\* C17: whichever element is missing, no scroll or click ever ends a listener
\* in an exception. BackToTop.init and ParallaxEffect.init return before
\* they register anything, but Navigation registers its listeners without
\* looking: handleScroll, closeMenu, toggleMenu and the document click
\* listener read classList / contains of null.
C17_SilentNoOp == ~threw

(***************************************************************************)
(* The whole page (under SpecPage)                                         *)
(***************************************************************************)
\* C18: a scroll event changes nothing of the menu (both 'active' flags and
\* the body lock), of the hero transform or of the scroll position; the
\* timer of the debounced listener changes the transform alone; a click on
\* the toggle, the menu, a menu link or elsewhere changes neither 'scrolled'
\* nor the back-to-top 'visible' flag, lastScrollY, the transform or a timer.
C18_Independence ==
    [][/\ DispatchScroll =>
             /\ MenuState' = MenuState
             /\ heroTransform' = heroTransform
             /\ <<scrollY, clickResult, lastClick>>' = <<scrollY, clickResult, lastClick>>
       /\ \A timer \in timers : TimerFires(timer) =>
             /\ MenuState' = MenuState
             /\ <<navbarScrolled, backToTopVisible, lastScrollY>>' =
                   <<navbarScrolled, backToTopVisible, lastScrollY>>
       /\ \A h \in NavbarHeights : Click(lastClick'.target, h) =>
             /\ <<navbarScrolled, backToTopVisible, lastScrollY>>' =
                   <<navbarScrolled, backToTopVisible, lastScrollY>>
             /\ <<heroTransform, timers>>' = <<heroTransform, timers>>
      ]_vars

\* the menu is open and locks the body, the last scroll event has set both
\* scroll flags and the timer has written the transform for that offset
C18_Witness ==
    /\ lastClick.target.el = "menuToggle"
    /\ MenuState = [toggle |-> TRUE, menu |-> TRUE, overflow |-> "hidden"]
    /\ navbarScrolled /\ backToTopVisible
    /\ lastEventY = MaxScrollY
    /\ heroTransform = TranslateY(MaxScrollY)

====
